---- MODULE Spec2Model ----
(***************************************************************************)
(* Model of the dataset loader of js/utils/data-loader.js                  *)
(* (loadCsvMaybeParts and its module-level cache), of the d3 fetches it    *)
(* issues, and of the static file host that answers them.                  *)
(*                                                                         *)
(* Specifications:                                                         *)
(*   Spec       the loader, its cache and the host                         *)
(*   SpecHang   Spec with a host that may leave one fetch unanswered       *)
(*   SpecLive   Spec with every fetch answered and every callback run      *)
(*   SpecNames  the loader's string computations on chosen arguments       *)
(*   SpecKeys   the cache keys of two requests                             *)
(*   SpecRidership  getRidershipData of the two ridership charts           *)
(*   SpecCharts the charts that wait for the loader's promises             *)
(*   SpecLazy   lazy-init.js                                               *)
(*   SpecEgg    main.js, the easter-egg click counter                      *)
(*   SpecScroll main.js, the smooth scroll of the menu                     *)
(*   SpecNames  the loader's string computations on a range of arguments   *)
(*                                                                         *)
(* Strings are sequences of one-character strings, so that the key, the    *)
(* manifest path and the part paths are computed as the code computes them.*)
(***************************************************************************)
EXTENDS Integers, Sequences, FiniteSets, TLC

VARIABLES
  cache,     \* the Map of line 8: cache key -> promise (index into requests)
  requests,  \* the promises built at line 16, one per cache miss
  fetches,   \* every d3.csv / d3.json issued, grouped by the promise whose
             \* chain issued it: fetches[r][1] is the direct d3.csv, [2] the
             \* d3.json of the manifest, [2 + i] the d3.csv of part i
  calls,     \* every loadCsvMaybeParts call made so far, with what it returned
             \* and what the caller could observe then: saw tells whether the
             \* returned promise was "new" (a miss), "pending" or "settled",
             \* avail whether the host served the path
  server,    \* the file host: URL -> file body, or Missing
  charts,    \* the charts that consume the loader: where each is, the state
             \* of the assets it waits for, what its container holds
  lazy,      \* lazy-init.js: the `initialized` set, the observers, the
             \* microtasks queued by initOnce and the init functions run
  egg,       \* main.js, easter egg: eggClicks, lastClickTime, the clock, the
             \* clicks made and the clicks on which triggerTrain was called
  scroll,    \* main.js, smooth scroll: the page position, activeScrollRaf,
             \* the animation passes, the frame requests and timers pending
  ridership, \* window.__nycRidershipDataPromise and the getRidershipData
             \* calls of the two chart scripts
  names      \* one evaluation of the loader's string computations (key,
             \* manifest path, part URL) on chosen arguments

vars == <<cache, requests, fetches, calls, server, names, charts, lazy,
          egg, scroll, ridership>>

pageVars == <<egg, scroll, ridership>>
PageIdle == egg = <<>> /\ scroll = <<>> /\ ridership = <<>>

\* ------------------------------------------------------------- bounds
MaxCalls == 2
MaxRows == 3
MaxParts == 2
MaxRegs == 3
MaxEntries == 2
MaxClicks == 6
MaxRiderCalls == 4
MaxScrollClicks == 2
MaxShifts == 1
Frames == 2

\* ------------------------------------------------------------- strings
SepStr == <<":", ":">>
PartsJsonStr == <<".", "p", "a", "r", "t", "s", ".", "j", "s", "o", "n">>

\* String.prototype.lastIndexOf for a one-character needle, 1-based, 0 if none
RECURSIVE LastIndexOf(_, _)
LastIndexOf(s, ch) ==
  IF s = <<>> THEN 0
  ELSE IF s[Len(s)] = ch THEN Len(s)
  ELSE LastIndexOf(SubSeq(s, 1, Len(s) - 1), ch)

Includes(s, ch) == \E i \in 1..Len(s) : s[i] = ch

EndsWithCsvI_CaseSensitive(s) ==
  Len(s) >= 4 /\ SubSeq(s, Len(s) - 3, Len(s)) = <<".", "c", "s", "v">>

\* /\.csv$/i
EndsWithCsvI(s) ==
  /\ Len(s) >= 4
  /\ s[Len(s) - 3] = "."
  /\ s[Len(s) - 2] \in {"c", "C"}
  /\ s[Len(s) - 1] \in {"s", "S"}
  /\ s[Len(s)] \in {"v", "V"}

\* path.replace(/\.csv$/i, "")
StripCsv(path) ==
  IF EndsWithCsvI(path) THEN SubSeq(path, 1, Len(path) - 4) ELSE path

ManifestPath(path) == StripCsv(path) \o PartsJsonStr

\* String.prototype.indexOf for a one-character needle, 1-based, 0 if none
IndexOf(s, ch) ==
  IF Includes(s, ch) THEN CHOOSE i \in 1..Len(s) : s[i] = ch /\ \A j \in 1..(i - 1) : s[j] # ch
  ELSE 0

Prefix_FirstSlash(path) ==
  IF Includes(path, "/") THEN SubSeq(path, 1, IndexOf(path, "/")) ELSE <<>>

\* path.includes("/") ? path.slice(0, path.lastIndexOf("/") + 1) : ""
Prefix(path) ==
  IF Includes(path, "/") THEN SubSeq(path, 1, LastIndexOf(path, "/")) ELSE <<>>

PartUrl_NoPrefix(path, part) == part

\* `${prefix}${part}`
PartUrl(path, part) == Prefix(path) \o part

\* ------------------------------------------------------------- cache key
\* The optional third argument: given = FALSE is undefined.
NoKey == [given |-> FALSE, s |-> <<>>]
Suffix(s) == [given |-> TRUE, s |-> s]

\* JavaScript truthiness of the cacheKey argument
Truthy(ck) == ck.given /\ ck.s # <<>>

Key_IgnoreSuffix(path, ck) == path

Key(path, ck) == IF Truthy(ck) THEN path \o SepStr \o ck.s ELSE path

\* ------------------------------------------------------------- file host
\* A line of a tabular file: the header line, or the n-th data line.
HeaderLine == [kind |-> "header", n |-> 0]
DataLine(n) == [kind |-> "row", n |-> n]

Missing == [kind |-> "missing", lines |-> <<>>, json |-> <<>>]
CsvBody(lines) == [kind |-> "csv", lines |-> lines, json |-> <<>>]
JsonBody(v) == [kind |-> "json", lines |-> <<>>, json |-> <<v>>]

\* JSON values a manifest URL can hold. parts.kind: "absent", "string"
\* (present, not an array) or "array".
JsonNull == [isNull |-> TRUE, parts |-> [kind |-> "absent", items |-> <<>>], extra |-> FALSE]
JsonNoParts == [isNull |-> FALSE, parts |-> [kind |-> "absent", items |-> <<>>], extra |-> TRUE]
JsonPartsString == [isNull |-> FALSE, parts |-> [kind |-> "string", items |-> <<>>], extra |-> FALSE]
JsonManifest(items, extra) ==
  [isNull |-> FALSE, parts |-> [kind |-> "array", items |-> items], extra |-> extra]

\* The unsplit dataset of N rows: its header line, then rows 1..N.
Dataset(N) == <<HeaderLine>> \o [i \in 1..N |-> DataLine(i)]

Digits == <<"1", "2", "3", "4", "5", "6", "7", "8", "9">>
Basename(path) == SubSeq(path, LastIndexOf(path, "/") + 1, Len(path))
\* Where the host keeps a file named `name` that belongs to the dataset at
\* `path`: in the directory of `path`.
Beside(path, name) == SubSeq(path, 1, LastIndexOf(path, "/")) \o name

\* <stem>_partN.csv
PartName(path, i) ==
  StripCsv(Basename(path)) \o <<"_", "p", "a", "r", "t">> \o <<Digits[i]>>
    \o <<".", "c", "s", "v">>

\* Ways to cut N rows into contiguous non-empty groups: sequences of sizes.
RECURSIVE Compositions(_)
Compositions(N) ==
  IF N = 0 THEN {<<>>}
  ELSE UNION {{<<first>> \o rest : rest \in Compositions(N - first)} : first \in 1..N}

RECURSIVE SumTo(_, _)
SumTo(sizes, i) == IF i = 0 THEN 0 ELSE sizes[i] + SumTo(sizes, i - 1)

\* The partitioner: part i holds the header and the i-th contiguous group.
PartLines(lines, sizes, i) ==
  <<lines[1]>> \o SubSeq(lines, 2 + SumTo(sizes, i - 1), 1 + SumTo(sizes, i))

PartitionerManifest(path, sizes) ==
  JsonManifest([i \in 1..Len(sizes) |-> PartName(path, i)], FALSE)

Reverse(s) == [i \in 1..Len(s) |-> s[Len(s) + 1 - i]]

\* ------------------------------------------------------------- inputs
\* "d/a.csv"
DataPath == <<"d", "/", "a", ".", "c", "s", "v">>
Paths == {DataPath}
\* The row transforms callers pass: each tags the rows it produces.
RowFns == {"A", "B"}
CacheKeyArgs == {NoKey, Suffix(<<"v">>)}

\* What the host serves for `path`: the unsplit file or not, a manifest body,
\* the partitioner's part files for the cut `sizes`, part `lost` missing.
Host(path, lines, directOk, manifestBody, sizes, lost) ==
  [u \in {path, ManifestPath(path)}
         \cup {Beside(path, PartName(path, i)) : i \in 1..Len(sizes)} |->
     IF u = path THEN (IF directOk THEN CsvBody(lines) ELSE Missing)
     ELSE IF u = ManifestPath(path) THEN manifestBody
     ELSE LET i == CHOOSE j \in 1..Len(sizes) : u = Beside(path, PartName(path, j))
          IN IF i = lost THEN Missing ELSE CsvBody(PartLines(lines, sizes, i))]

\* The partitioner ran with cut `sizes` and the unsplit file was removed.
SplitHost(path, lines, sizes) ==
  Host(path, lines, FALSE, JsonBody(PartitionerManifest(path, sizes)), sizes, 0)

\* The cuts of the dataset into at most MaxParts parts.
Cuts == {z \in Compositions(MaxRows) : Len(z) <= MaxParts}

\* The cut into k parts that leaves one row to every part but the first.
FrontCut(k) == [i \in 1..k |-> IF i = 1 THEN MaxRows - (k - 1) ELSE 1]

Scenarios ==
  \* the unsplit file is served, alone or with the partitioner's output beside it
  {Host(DataPath, Dataset(MaxRows), TRUE, Missing, <<>>, 0)}
  \cup {Host(DataPath, Dataset(MaxRows), TRUE,
             JsonBody(PartitionerManifest(DataPath, FrontCut(k))), FrontCut(k), 0) :
          k \in 1..MaxParts}
  \* the partitioner's output alone, for every cut
  \cup {SplitHost(DataPath, Dataset(MaxRows), z) : z \in Cuts}
  \* the partitioner's output with one part lost
  \cup UNION {{Host(DataPath, Dataset(MaxRows), FALSE,
                    JsonBody(PartitionerManifest(DataPath, FrontCut(k))),
                    FrontCut(k), lost) : lost \in 1..k} : k \in 1..MaxParts}
  \* a manifest written by hand: the parts in another order, an extra field
  \cup {Host(DataPath, Dataset(MaxRows), FALSE,
             JsonBody(JsonManifest(
               Reverse(PartitionerManifest(DataPath, FrontCut(k)).parts.items), TRUE)),
             FrontCut(k), 0) : k \in 1..MaxParts}
  \* no usable manifest
  \cup {Host(DataPath, Dataset(MaxRows), FALSE, m, <<>>, 0) :
          m \in {Missing, JsonBody(JsonNull), JsonBody(JsonNoParts),
                 JsonBody(JsonPartsString), JsonBody(JsonManifest(<<>>, FALSE))}}

Body(url) == IF url \in DOMAIN server.files THEN server.files[url] ELSE Missing

\* ------------------------------------------------------------- d3
Transform(row, line) == [by |-> row, kind |-> line.kind, n |-> line.n]

\* d3.csv's parse: the first line names the columns, every other line is a
\* record passed through the row transform.
D3Csv(lines, row) == [i \in 1..(Len(lines) - 1) |-> Transform(row, lines[i + 1])]

\* The error a failed fetch rejects with: one fresh Error object per fetch.
Err(r, i) == [req |-> r, fetch |-> i]

\* cached: whether the key of the promise was in the cache when the fetch
\* was started. status: "pending", "ok", "fail", or "hung" for a fetch the
\* host will never answer.
NewFetch(url, kind, row, role, cached) ==
  [url |-> url, kind |-> kind, row |-> row, role |-> role, cached |-> cached,
   status |-> "pending", rows |-> <<>>, json |-> <<>>]

DirectAt == 1
ManifestAt == 2
PartAt(i) == 2 + i

\* ------------------------------------------------------------- loader
CacheHas_SettledOnly(c, key) ==
  key \in DOMAIN c /\ requests[c[key]].pc \in {"resolved", "rejected"}

CacheHas_PendingOnly(c, key) ==
  key \in DOMAIN c /\ requests[c[key]].pc # "resolved"

CacheHas_NotRejected(c, key) ==
  key \in DOMAIN c /\ requests[c[key]].pc # "rejected"

\* cache.has(key)
CacheHas(c, key) == key \in DOMAIN c

CacheSet_Overwrite(c, key, r) == [k \in DOMAIN c \cup {key} |-> r]

CacheSet_Evict(c, key, r) == [k \in {key} |-> r]

\* cache.set(key, request)
CacheSet(c, key, r) == [k \in DOMAIN c \cup {key} |-> IF k = key THEN r ELSE c[k]]

EntryAtDirectFetch_SetFirst(c, key) == TRUE

\* Whether the key is in the cache when line 16 starts the direct fetch:
\* cache.set (line 35) has not run yet.
EntryAtDirectFetch(c, key) == CacheHas(c, key)

\* The promise `request` of line 16. pc is where its chain stands:
\*   "direct"   d3.csv(path, row) is pending
\*   "manifest" the catch callback is suspended at `await d3.json`
\*   "parts"    the catch callback is suspended at `await Promise.all`
\*   "resolved" / "rejected"  settled, with value / reason
NewRequest(key, path, row) ==
  [key |-> key, path |-> path, row |-> row, pc |-> "direct",
   error |-> <<>>, gather |-> <<>>, skew |-> FALSE, value |-> <<>>, reason |-> <<>>]

Settled(q) == q.pc \in {"resolved", "rejected"}

\* loadCsvMaybeParts(path, row, cacheKey): one synchronous run of lines 10-37
Call(path, row, ck) ==
  /\ Len(calls) < MaxCalls
  /\ LET key == Key(path, ck) IN
     \/ /\ CacheHas(cache, key)
        /\ calls' = Append(calls, [path |-> path, row |-> row, ck |-> ck,
                                   promise |-> cache[key],
                                   saw |-> IF Settled(requests[cache[key]])
                                             THEN "settled" ELSE "pending",
                                   avail |-> Body(path).kind = "csv"])
        /\ UNCHANGED <<cache, requests, fetches, server>>
     \/ /\ ~CacheHas(cache, key)
        /\ LET r == Len(requests) + 1
           IN /\ fetches' = Append(fetches,
                              <<NewFetch(path, "csv", row, "direct",
                                         EntryAtDirectFetch(cache, key))>>)
              /\ requests' = Append(requests, NewRequest(key, path, row))
              /\ cache' = CacheSet(cache, key, r)
              /\ calls' = Append(calls, [path |-> path, row |-> row, ck |-> ck,
                                         promise |-> r, saw |-> "new",
                                         avail |-> Body(path).kind = "csv"])
        /\ UNCHANGED server

\* Promise.all keeps one slot per input promise and fills it when that
\* promise fulfils.
EmptyGather(n) == [i \in 1..n |-> [done |-> FALSE, rows |-> <<>>]]

RECURSIVE FirstOpen(_, _)
FirstOpen(g, i) == IF i >= Len(g) \/ ~g[i].done THEN i ELSE FirstOpen(g, i + 1)

GatherStore_Arrival(g, i, rows) ==
  [g EXCEPT ![FirstOpen(g, 1)] = [done |-> TRUE, rows |-> rows]]

GatherStore(g, i, rows) == [g EXCEPT ![i] = [done |-> TRUE, rows |-> rows]]

Flat_FirstOnly(g) == IF g = <<>> THEN <<>> ELSE Head(g).rows

\* Array.prototype.flat() on the array of row arrays
RECURSIVE FlatFrom(_, _)
FlatFrom(g, i) == IF i > Len(g) THEN <<>> ELSE g[i].rows \o FlatFrom(g, i + 1)

Flat(g) == FlatFrom(g, 1)

\* The host answers a pending fetch. A part's rows go to its Promise.all slot.
\* skew records that a part was answered before a part listed ahead of it.
FetchSettle(r, i) ==
  /\ fetches[r][i].status = "pending"
  /\ LET q == fetches[r][i]
         b == Body(q.url)
         ok == b.kind = q.kind
         rows == IF ok /\ q.kind = "csv" THEN D3Csv(b.lines, q.row) ELSE <<>>
     IN /\ fetches' = [fetches EXCEPT ![r][i] =
                         [q EXCEPT !.status = IF ok THEN "ok" ELSE "fail",
                                   !.rows = rows,
                                   !.json = IF ok THEN b.json ELSE <<>>]]
        /\ requests' =
             IF ok /\ q.role = "part"
               THEN [requests EXCEPT
                       ![r].gather = GatherStore(@, i - ManifestAt, rows),
                       ![r].skew = @ \/ \E j \in (ManifestAt + 1)..(i - 1) :
                                            fetches[r][j].status = "pending"]
               ELSE requests
  /\ UNCHANGED <<cache, calls, server>>

\* `throw error` of lines 23 and 31: the callback's own parameter, whatever
\* was caught.
Rethrow_Caught(error, caught) == caught

Rethrow(error, caught) == error

ManifestValid_AllowEmpty(m) == ~m.isNull /\ m.parts.kind = "array"

\* line 22, negated
ManifestValid(m) ==
  /\ ~m.isNull
  /\ m.parts.kind = "array"
  /\ Len(m.parts.items) # 0

Settle(q, pc, value, reason) ==
  [q EXCEPT !.pc = pc, !.value = value, !.reason = reason]

CatchRuns_Never(status) == FALSE

CatchRuns_Always(status) == status \in {"ok", "fail"}

\* .catch(callback): the callback runs only when d3.csv(path, row) rejected.
CatchRuns(status) == status = "fail"

\* d3.csv(path, row) fulfilled: .catch passes the rows through.
DirectResolved(r) ==
  /\ requests[r].pc = "direct"
  /\ fetches[r][DirectAt].status = "ok"
  /\ requests' = [requests EXCEPT ![r] =
                    Settle(@, "resolved", fetches[r][DirectAt].rows, <<>>)]
  /\ UNCHANGED <<cache, fetches, calls, server>>

\* d3.csv(path, row) rejected: the catch callback runs lines 17-21, up to
\* the await of d3.json(manifestPath).
DirectRejected(r) ==
  /\ requests[r].pc = "direct"
  /\ CatchRuns(fetches[r][DirectAt].status)
  /\ LET q == requests[r]
     IN /\ fetches' = [fetches EXCEPT ![r] =
                         Append(@, NewFetch(ManifestPath(q.path), "json", q.row, "manifest",
                                            CacheHas(cache, q.key)))]
        /\ requests' = [requests EXCEPT ![r] =
                          [q EXCEPT !.pc = "manifest", !.error = <<Err(r, DirectAt)>>]]
  /\ UNCHANGED <<cache, calls, server>>

IssueParts_Twice(path, row, key, items) ==
  [i \in 1..(2 * Len(items)) |->
     NewFetch(PartUrl(path, items[((i - 1) % Len(items)) + 1]), "csv", row, "part",
              CacheHas(cache, key))]

IssueParts_FirstOnly(path, row, key, items) ==
  <<NewFetch(PartUrl(path, items[1]), "csv", row, "part", CacheHas(cache, key))>>

\* line 27: manifest.parts.map(...) starts one d3.csv per listed part, each
\* with the same row transform, before anything is awaited.
IssueParts(path, row, key, items) ==
  [i \in 1..Len(items) |->
     NewFetch(PartUrl(path, items[i]), "csv", row, "part", CacheHas(cache, key))]

\* d3.json settled: the callback resumes at line 22 and runs to the await of
\* Promise.all (line 28), or throws.
ManifestSettled(r) ==
  /\ requests[r].pc = "manifest"
  /\ LET q == requests[r]
         mf == fetches[r][ManifestAt]
     IN \/ /\ mf.status = "fail"
           /\ requests' = [requests EXCEPT ![r] =
                 Settle(q, "rejected", <<>>, <<Rethrow(q.error[1], Err(r, ManifestAt))>>)]
           /\ UNCHANGED fetches
        \/ /\ mf.status = "ok"
           /\ ~ManifestValid(mf.json[1])
           /\ requests' = [requests EXCEPT ![r] =
                 Settle(q, "rejected", <<>>, <<Rethrow(q.error[1], q.error[1])>>)]
           /\ UNCHANGED fetches
        \/ /\ mf.status = "ok"
           /\ ManifestValid(mf.json[1])
           /\ LET items == mf.json[1].parts.items
                  n == Len(items)
              IN /\ fetches' = [fetches EXCEPT ![r] =
                                    @ \o IssueParts(q.path, q.row, q.key, items)]
                 /\ requests' = [requests EXCEPT ![r] =
                      [q EXCEPT !.pc = "parts", !.gather = EmptyGather(n)]]
  /\ UNCHANGED <<cache, calls, server>>

\* The states of the part fetches of promise r, in list order.
PartStatuses(r) ==
  [i \in 1..(Len(fetches[r]) - ManifestAt) |-> fetches[r][PartAt(i)].status]

AllRejects_WhenAllAnswered(st) ==
  /\ \E i \in 1..Len(st) : st[i] = "fail"
  /\ \A i \in 1..Len(st) : st[i] \in {"ok", "fail"}

\* Promise.all rejects as soon as one of its promises has rejected,
AllRejects(st) == \E i \in 1..Len(st) : st[i] = "fail"

AllFulfils_NoneFailed(st) == \A i \in 1..Len(st) : st[i] # "fail"

\* and fulfils once all of them have fulfilled.
AllFulfils(st) == \A i \in 1..Len(st) : st[i] = "ok"

\* Promise.all settled; the callback resumes at line 29 or at line 30.
PartsJoined(r) ==
  /\ requests[r].pc = "parts"
  /\ LET q == requests[r]
         n == Len(q.gather)
     IN \/ /\ AllRejects(PartStatuses(r))
           /\ \E i \in 1..n :
                /\ fetches[r][PartAt(i)].status = "fail"
                /\ requests' = [requests EXCEPT ![r] =
                      Settle(q, "rejected", <<>>,
                             <<Rethrow(q.error[1], Err(r, PartAt(i)))>>)]
        \/ /\ AllFulfils(PartStatuses(r))
           /\ requests' = [requests EXCEPT ![r] =
                 Settle(q, "resolved", Flat(q.gather), <<>>)]
  /\ UNCHANGED <<cache, fetches, calls, server>>

\* The unsplit file is put (back) on the host. Before any fetch of the path
\* has failed this is the same as a host that served it from the start
\* (Scenarios), so only the later uploads are separate behaviours.
Publish(path) ==
  /\ Body(path).kind = "missing"
  /\ \E r \in 1..Len(requests) :
       requests[r].path = path /\ fetches[r][DirectAt].status = "fail"
  /\ server' = [server EXCEPT !.files =
                  [u \in DOMAIN server.files \cup {path} |->
                     IF u = path THEN CsvBody(server.dataset) ELSE server.files[u]]]
  /\ UNCHANGED <<cache, requests, fetches, calls>>

\* The host never answers this fetch: no timeout, no cancellation in the
\* loader will end it.
Hang(r, i) ==
  /\ fetches[r][i].status = "pending"
  /\ \A r2 \in 1..Len(fetches) : \A j \in 1..Len(fetches[r2]) :
       fetches[r2][j].status # "hung"
  /\ fetches' = [fetches EXCEPT ![r][i].status = "hung"]
  /\ UNCHANGED <<cache, requests, calls, server>>

LoaderInit ==
  /\ cache = <<>>
  /\ requests = <<>>
  /\ fetches = <<>>
  /\ calls = <<>>
  /\ \E files \in Scenarios :
       server = [files |-> files, dataset |-> Dataset(MaxRows)]

\* No call has been made and nothing is on the host.
LoaderIdle ==
  /\ cache = <<>>
  /\ requests = <<>>
  /\ fetches = <<>>
  /\ calls = <<>>
  /\ server = [files |-> <<>>, dataset |-> <<>>]

loaderVars == <<cache, requests, fetches, calls, server>>

\* ------------------------------------------------------------- names
\* Arguments for the string computations: directories, stems, extensions.
NameDirs == {<<>>, <<"d", "/">>, <<"d", "/", "e", "/">>, <<"d", ".", "x", "/">>}
NameStems == {<<"a">>, <<"a", ".", "b">>}
NameExts == {<<>>, <<".", "c", "s", "v">>, <<".", "C", "S", "V">>, <<".", "C", "s", "v">>,
             <<".", "t", "s", "v">>, <<".", "j", "s", "o", "n">>}
NamePaths == {d \o n \o e : d \in NameDirs, n \in NameStems, e \in NameExts}
NameParts == {<<"p", ".", "c", "s", "v">>, <<"q", "/", "p", ".", "c", "s", "v">>}
NameKeys == {NoKey, Suffix(<<>>), Suffix(<<"v">>)}

NamesIdle == [pc |-> "idle"]

NamesInit ==
  names \in {[pc |-> "in", path |-> p, part |-> q, ck |-> k,
              key |-> <<>>, manifest |-> <<>>, partUrl |-> <<>>] :
               p \in NamePaths, q \in NameParts, k \in NameKeys}

\* Lines 11, 17-18 and 26-27 on the chosen arguments.
Derive ==
  /\ names.pc = "in"
  /\ names' = [names EXCEPT !.pc = "out",
                            !.key = Key(names.path, names.ck),
                            !.manifest = ManifestPath(names.path),
                            !.partUrl = PartUrl(names.path, names.part)]
  /\ UNCHANGED <<loaderVars, charts, lazy, pageVars>>

\* Two requests whose keys are compared: paths with and without the
\* separator in them, suffixes absent, empty and not empty.
KeyPaths == {<<"p">>, <<"p", ":", ":", "v">>, <<"q">>}
KeySuffixes == {NoKey, Suffix(<<>>), Suffix(<<"v">>), Suffix(<<"w">>)}
KeyRequests == {[path |-> p, ck |-> k] : p \in KeyPaths, k \in KeySuffixes}

KeysInit ==
  names \in {[pc |-> "in", a |-> a, b |-> b, keyA |-> <<>>, keyB |-> <<>>] :
               a \in KeyRequests, b \in KeyRequests}

\* Line 11 on each of the two requests.
DeriveKeys ==
  /\ names.pc = "in"
  /\ names' = [names EXCEPT !.pc = "out",
                            !.keyA = Key(names.a.path, names.a.ck),
                            !.keyB = Key(names.b.path, names.b.ck)]
  /\ UNCHANGED <<loaderVars, charts, lazy, pageVars>>

\* ------------------------------------------------------------- charts
\* initOverviewMap (overview-map.js), initTripdataCharts (tripdata.js) and
\* initTaxiCharts (taxis-map.js). Each waits with Promise.all for a list of
\* assets; the lists are cut to one asset of each kind the chart lists.
ChartNames == {"overview", "tripdata", "taxi"}

ChartAssets(c) ==
  CASE c = "overview" -> <<"json", "loader">>
    [] c = "tripdata" -> <<"json", "loader">>
    [] c = "taxi" -> <<"loader", "loader">>

ChartsIdle == <<>>

ChartsInit ==
  charts = [c \in ChartNames |->
              [pc |-> "idle", assets |-> <<>>, container |-> {}, logged |-> FALSE]]

\* What the chart has put in its container before it waits: the overview
\* map appends its svg first.
Scaffold(c) == IF c = "overview" THEN {"svg"} ELSE {}

\* The init function runs up to its Promise.all.
StartChart(c) ==
  /\ charts[c].pc = "idle"
  /\ charts' = [charts EXCEPT ![c] =
       [@ EXCEPT !.pc = "loading",
                 !.container = Scaffold(c),
                 !.assets = [i \in 1..Len(ChartAssets(c)) |->
                               [from |-> ChartAssets(c)[i], status |-> "pending"]]]]
  /\ UNCHANGED <<loaderVars, names, lazy, pageVars>>

\* A promise the chart waits for settles.
AssetSettles(c, i, status) ==
  /\ charts[c].assets[i].status = "pending"
  /\ charts' = [charts EXCEPT ![c].assets[i].status = status]
  /\ UNCHANGED <<loaderVars, names, lazy, pageVars>>

\* The catch of each chart: all three log to the console; the overview map
\* also appends its error paragraph.
CatchHandler(c, ch) ==
  [ch EXCEPT !.pc = "failed",
             !.logged = TRUE,
             !.container = IF c = "overview" THEN @ \cup {"message"} ELSE @]

AssetStatuses(c) == [i \in 1..Len(charts[c].assets) |-> charts[c].assets[i].status]

\* Promise.all settled: the chart renders, or its catch runs (also when the
\* rendering throws).
ChartJoined(c) ==
  /\ charts[c].pc = "loading"
  /\ \/ /\ AllRejects(AssetStatuses(c))
        /\ charts' = [charts EXCEPT ![c] = CatchHandler(c, @)]
     \/ /\ AllFulfils(AssetStatuses(c))
        /\ \E renders \in BOOLEAN :
             charts' = [charts EXCEPT ![c] =
               IF renders
                 THEN [@ EXCEPT !.pc = "rendered", !.container = @ \cup {"marks"}]
                 ELSE CatchHandler(c, @)]
  /\ UNCHANGED <<loaderVars, names, lazy, pageVars>>

\* ------------------------------------------------------------- lazy init
Elements == {"#map", "#chart"}
NoElement == "#none"
Targets == Elements \cup {NoElement}
InitFns == {"initA", "initB"}

\* document.querySelector(target): null for a selector that matches nothing
QuerySelector(target) == target

LazyIdle == <<>>

LazyInit ==
  \E io \in BOOLEAN :
    lazy = [hasIO |-> io, regs |-> 0, asked |-> <<>>, initialized |-> {},
            observers |-> <<>>, jobs |-> <<>>, runs |-> <<>>, logged |-> 0]

AlreadyInitialized_Never(set, element) == FALSE

\* initialized.has(element)
AlreadyInitialized(set, element) == element \in set

\* initOnce (lines 24-32): the element is marked and initFn is queued as a
\* microtask.
InitOnce(L, element, initFn) ==
  IF element = NoElement \/ AlreadyInitialized(L.initialized, element) THEN L
  ELSE [L EXCEPT !.initialized = @ \cup {element},
                 !.jobs = Append(@, [element |-> element, fn |-> initFn])]

\* registerLazyInit (lines 34-57)
RegisterLazyInit(target, initFn) ==
  /\ lazy.regs < MaxRegs
  /\ LET element == QuerySelector(target)
         L == [lazy EXCEPT !.regs = @ + 1,
                           !.asked = Append(@, [target |-> target, fn |-> initFn])]
     IN lazy' =
          IF element = NoElement THEN L
          ELSE IF ~lazy.hasIO THEN InitOnce(L, element, initFn)
          ELSE [L EXCEPT !.observers =
                  Append(@, [element |-> element, fn |-> initFn, observing |-> TRUE])]
  /\ UNCHANGED <<loaderVars, names, charts, pageVars>>

OnEntry_KeepObserving(L, o, isIntersecting) ==
  IF ~isIntersecting THEN L
  ELSE InitOnce(L, L.observers[o].element, L.observers[o].fn)

\* The observer callback on one entry (lines 47-51)
OnEntry(L, o, isIntersecting) ==
  IF ~isIntersecting THEN L
  ELSE [InitOnce(L, L.observers[o].element, L.observers[o].fn)
          EXCEPT !.observers[o].observing = FALSE]

\* entries.forEach
RECURSIVE OnEntries(_, _, _)
OnEntries(L, o, entries) ==
  IF entries = <<>> THEN L
  ELSE OnEntries(OnEntry(L, o, Head(entries)), o, Tail(entries))

EntryLists == UNION {[1..n -> BOOLEAN] : n \in 1..MaxEntries}

\* The browser calls the callback of an observer that observes its element,
\* with the entries queued for it.
Intersect(o, entries) ==
  /\ lazy.observers[o].observing
  /\ lazy' = OnEntries(lazy, o, entries)
  /\ UNCHANGED <<loaderVars, names, charts, pageVars>>

InitCaught_Unmark(L, element, outcome) ==
  IF outcome = "ok" THEN L
  ELSE [L EXCEPT !.logged = @ + 1, !.initialized = @ \ {element}]

\* .catch (lines 29-31): console.error, nothing else.
InitCaught(L, element, outcome) ==
  IF outcome = "ok" THEN L ELSE [L EXCEPT !.logged = @ + 1]

\* The microtask of line 27-31 runs initFn; an error it throws, or a
\* rejection it returns, is caught and logged. at: how many registrations
\* had been made when initFn ran.
RunInit(outcome) ==
  /\ lazy.jobs # <<>>
  /\ lazy' = InitCaught(
       [lazy EXCEPT
          !.jobs = Tail(@),
          !.runs = Append(@, [element |-> Head(lazy.jobs).element,
                              fn |-> Head(lazy.jobs).fn, outcome |-> outcome,
                              at |-> lazy.regs])],
       Head(lazy.jobs).element, outcome)
  /\ UNCHANGED <<loaderVars, names, charts, pageVars>>

\* ------------------------------------------------------------- easter egg
\* main.js, the second half of the click handler of each menu link (lines
\* 216-235). It reads and writes eggClicks and lastClickTime only; the first
\* half of the handler (the smooth scroll, lines 191-214) does not touch them.
otherVars == <<loaderVars, names, charts, lazy>>

CLICK_WINDOW == 2000

\* The menu links: lastLink is menuLinks[menuLinks.length - 1].
LastLink == "last"
MenuLinks == {"first", LastLink}

\* Date.now() when the page loads, and the times between two clicks, in ms.
PageLoadTime == 10000
Gaps == {500, 2000, 2001}

EggInit ==
  \E hasTrain \in BOOLEAN :
    egg = [eggClicks |-> 0, lastClickTime |-> 0, now |-> PageLoadTime,
           train |-> hasTrain, active |-> FALSE, clicks |-> <<>>, fired |-> {}]

WindowPassed_AtWindow(now, lastClickTime) == now - lastClickTime >= CLICK_WINDOW

\* now - lastClickTime > CLICK_WINDOW (line 221)
WindowPassed(now, lastClickTime) == now - lastClickTime > CLICK_WINDOW

\* triggerTrain (lines 156-163): restarts the animation class, if the train
\* element exists.
TriggerTrain(e) == IF e.train THEN [e EXCEPT !.active = TRUE] ELSE e

\* A click on a menu link, `gap` ms after the previous event.
EggClick(link, gap) ==
  /\ Len(egg.clicks) < MaxClicks
  /\ LET now == egg.now + gap
         e0 == [egg EXCEPT !.now = now,
                           !.clicks = Append(@, [link |-> link, time |-> now])]
         counted == IF WindowPassed(now, egg.lastClickTime) THEN 1
                    ELSE egg.eggClicks + 1
     IN egg' =
          IF link = LastLink
            THEN IF counted >= 5
                   THEN TriggerTrain([e0 EXCEPT !.eggClicks = 0,
                                                !.lastClickTime = now,
                                                !.fired = @ \cup {Len(e0.clicks)}])
                   ELSE [e0 EXCEPT !.eggClicks = counted, !.lastClickTime = now]
            ELSE [e0 EXCEPT !.eggClicks = 0]
  /\ UNCHANGED <<otherVars, scroll, ridership>>

\* ------------------------------------------------------------- smooth scroll
\* main.js, smoothScrollToTarget (lines 65-109) and the first half of the
\* click handler (lines 191-214). Positions are in px. A pass of the
\* animation takes Frames animation frames, whatever its duration.
ScrollLinks == {"a", "b"}

\* getTargetY of a link: where its section is, which moves when the layout
\* above it changes (a chart that is drawn late).
SectionY(link) == IF link = "a" THEN 8 ELSE 40
Layouts == {0, 2, 6}
TargetY(link, layout) == SectionY(link) + layout

maxAttempts == 2

NoRaf == 0

ScrollInit ==
  \E reduced \in BOOLEAN :
    scroll = [y |-> 0, layout |-> 0, shifts |-> 0, reduced |-> reduced,
              activeScrollRaf |-> NoRaf, nextRaf |-> 1, rafs |-> {},
              passes |-> <<>>, timers |-> {}, clicks |-> <<>>]

\* easeInOutCubic (lines 61-63) at t = frame / Frames, as a fraction of
\* EasedDen
EasedDen == 2 * Frames * Frames * Frames
EasedNum(frame) ==
  IF 2 * frame < Frames THEN 8 * frame * frame * frame
  ELSE EasedDen - (2 * Frames - 2 * frame) * (2 * Frames - 2 * frame) * (2 * Frames - 2 * frame)

Abs(n) == IF n < 0 THEN 0 - n ELSE n

CancelActive_Skip(S) == [S EXCEPT !.activeScrollRaf = NoRaf]

\* lines 75-78: the tracked frame request is cancelled; the pass it belonged
\* to stops there.
CancelActive(S) ==
  IF S.activeScrollRaf = NoRaf THEN S
  ELSE [S EXCEPT
          !.rafs = {q \in @ : q.id # S.activeScrollRaf},
          !.passes = [p \in DOMAIN @ |->
                        IF \E q \in S.rafs : q.id = S.activeScrollRaf /\ q.pass = p
                          THEN [@[p] EXCEPT !.state = "cancelled",
                                            !.by = Len(S.passes) + 1]
                          ELSE @[p]],
          !.activeScrollRaf = NoRaf]

\* requestAnimationFrame(step) for a pass; the id is stored in
\* activeScrollRaf.
RequestFrame(S, pass) ==
  [S EXCEPT !.rafs = @ \cup {[id |-> S.nextRaf, pass |-> pass]},
            !.activeScrollRaf = S.nextRaf,
            !.nextRaf = @ + 1]

\* smoothScrollToTarget(getTargetY, durationMs, attempt), called for `click`;
\* off is how far the page was from the target when a retry asked for it.
SmoothScrollToTarget(S, link, click, attempt, off) ==
  IF S.reduced THEN [S EXCEPT !.y = TargetY(link, S.layout)]
  ELSE LET S1 == CancelActive(S)
           S2 == [S1 EXCEPT !.passes =
                    Append(@, [click |-> click, link |-> link, attempt |-> attempt,
                               off |-> off, startY |-> S1.y, frame |-> 0,
                               state |-> "running", by |-> 0])]
       IN RequestFrame(S2, Len(S2.passes))

\* A click on a menu link whose section exists (lines 191-214).
ScrollClick(link) ==
  /\ Len(scroll.clicks) < MaxScrollClicks
  /\ scroll' = SmoothScrollToTarget(
                  [scroll EXCEPT !.clicks = Append(@, link)],
                  link, Len(scroll.clicks) + 1, 0, 0)
  /\ UNCHANGED <<otherVars, egg, ridership>>

MayRetry(attempt) == attempt < maxAttempts

\* The browser runs a requested frame: step (lines 84-106).
Frame(q) ==
  /\ q \in scroll.rafs
  /\ LET p == q.pass
         a == scroll.passes[p]
         frame == a.frame + 1
         targetY == TargetY(a.link, scroll.layout)
         S0 == [scroll EXCEPT
                  !.rafs = @ \ {q},
                  !.passes[p].frame = frame,
                  !.y = a.startY + ((targetY - a.startY) * EasedNum(frame)) \div EasedDen]
     IN scroll' =
          IF frame < Frames THEN RequestFrame(S0, p)
          ELSE [S0 EXCEPT !.activeScrollRaf = NoRaf,
                          !.y = targetY,
                          !.passes[p].state = "done",
                          !.timers = IF MayRetry(a.attempt) THEN @ \cup {p} ELSE @]
  /\ UNCHANGED <<otherVars, egg, ridership>>

OffTarget(diff) == diff > 2

\* The 80 ms timer a finished pass set (lines 97-103).
TimerFires(p) ==
  /\ p \in scroll.timers
  /\ LET a == scroll.passes[p]
         S0 == [scroll EXCEPT !.timers = @ \ {p}]
         diff == Abs(scroll.y - TargetY(a.link, scroll.layout))
     IN scroll' =
          IF OffTarget(diff)
            THEN SmoothScrollToTarget(S0, a.link, a.click, a.attempt + 1, diff)
            ELSE S0
  /\ UNCHANGED <<otherVars, egg, ridership>>

\* The layout above the sections changes.
LayoutShift(layout) ==
  /\ scroll.shifts < MaxShifts
  /\ layout # scroll.layout
  /\ scroll' = [scroll EXCEPT !.layout = layout, !.shifts = @ + 1]
  /\ UNCHANGED <<otherVars, egg, ridership>>

\* ------------------------------------------------------------- ridership
\* getRidershipData of transport-usage.js (lines 25-34, through loadCsv) and
\* of how-people-move.js (lines 18-27, through d3.csv). Both keep the
\* promise in window.__nycRidershipDataPromise.
RiderScripts == {"transport-usage", "how-people-move"}
NoPromise == 0

RidershipInit ==
  ridership = [promise |-> NoPromise, promises |-> <<>>, calls |-> <<>>]

\* How the script loads the CSV: loadCsv is window.loadCsvMaybeParts.
LoadsVia(script) == IF script = "transport-usage" THEN "loader" ELSE "d3"

NotLoadedYet_OrRejected(R) ==
  \/ R.promise = NoPromise
  \/ R.promises[R.promise].pc = "rejected"

\* !window.__nycRidershipDataPromise
NotLoadedYet(R) == R.promise = NoPromise

\* getRidershipData() in one of the two scripts
GetRidershipData(script) ==
  /\ Len(ridership.calls) < MaxRiderCalls
  /\ LET R == IF NotLoadedYet(ridership)
                THEN [ridership EXCEPT
                        !.promises = Append(@, [by |-> script, via |-> LoadsVia(script),
                                                pc |-> "direct"]),
                        !.promise = Len(ridership.promises) + 1]
                ELSE ridership
     IN ridership' = [R EXCEPT !.calls =
                        Append(@, [script |-> script, promise |-> R.promise,
                                   saw |-> IF NotLoadedYet(ridership) THEN "new"
                                           ELSE ridership.promises[ridership.promise].pc])]
  /\ UNCHANGED <<otherVars, egg, scroll>>

\* The request of the CSV is answered. Through d3.csv the promise settles
\* with it; through the loader a failure starts the fallback.
RidershipAnswered(r, ok) ==
  /\ ridership.promises[r].pc = "direct"
  /\ ridership' = [ridership EXCEPT !.promises[r].pc =
                     IF ok THEN "resolved"
                     ELSE IF ridership.promises[r].via = "loader" THEN "fallback"
                     ELSE "rejected"]
  /\ UNCHANGED <<otherVars, egg, scroll>>

\* The fallback of the loader ends.
RidershipFallback(r, ok) ==
  /\ ridership.promises[r].pc = "fallback"
  /\ ridership' = [ridership EXCEPT !.promises[r].pc =
                     IF ok THEN "resolved" ELSE "rejected"]
  /\ UNCHANGED <<otherVars, egg, scroll>>

\* ------------------------------------------------------------- specifications
Init ==
  LoaderInit /\ names = NamesIdle /\ charts = ChartsIdle /\ lazy = LazyIdle /\ PageIdle

Next ==
  \/ \E path \in Paths, row \in RowFns, ck \in CacheKeyArgs :
       Call(path, row, ck) /\ UNCHANGED <<names, charts, lazy, pageVars>>
  \/ \E r \in 1..Len(fetches) : \E i \in 1..Len(fetches[r]) :
       FetchSettle(r, i) /\ UNCHANGED <<names, charts, lazy, pageVars>>
  \/ \E r \in 1..Len(requests) : DirectResolved(r) /\ UNCHANGED <<names, charts, lazy, pageVars>>
  \/ \E r \in 1..Len(requests) : DirectRejected(r) /\ UNCHANGED <<names, charts, lazy, pageVars>>
  \/ \E r \in 1..Len(requests) : ManifestSettled(r) /\ UNCHANGED <<names, charts, lazy, pageVars>>
  \/ \E r \in 1..Len(requests) : PartsJoined(r) /\ UNCHANGED <<names, charts, lazy, pageVars>>
  \/ \E path \in Paths : Publish(path) /\ UNCHANGED <<names, charts, lazy, pageVars>>

Spec == Init /\ [][Next]_vars

NextHang ==
  \/ Next
  \/ \E r \in 1..Len(fetches) : \E i \in 1..Len(fetches[r]) :
       Hang(r, i) /\ UNCHANGED <<names, charts, lazy, pageVars>>

SpecHang == Init /\ [][NextHang]_vars

\* Every fetch that was issued is answered in the end, and a callback whose
\* promise has settled is run in the end. Calls are not forced.
Fairness ==
  /\ WF_vars(\E r \in 1..Len(fetches) : \E i \in 1..Len(fetches[r]) :
               FetchSettle(r, i) /\ UNCHANGED <<names, charts, lazy, pageVars>>)
  /\ WF_vars(\E r \in 1..Len(requests) :
               DirectResolved(r) /\ UNCHANGED <<names, charts, lazy, pageVars>>)
  /\ WF_vars(\E r \in 1..Len(requests) :
               DirectRejected(r) /\ UNCHANGED <<names, charts, lazy, pageVars>>)
  /\ WF_vars(\E r \in 1..Len(requests) :
               ManifestSettled(r) /\ UNCHANGED <<names, charts, lazy, pageVars>>)
  /\ WF_vars(\E r \in 1..Len(requests) :
               PartsJoined(r) /\ UNCHANGED <<names, charts, lazy, pageVars>>)

SpecLive == Init /\ [][Next]_vars /\ Fairness

InitNames ==
  LoaderIdle /\ NamesInit /\ charts = ChartsIdle /\ lazy = LazyIdle /\ PageIdle

NextNames == Derive

SpecNames == InitNames /\ [][NextNames]_vars

InitCharts ==
  LoaderIdle /\ names = NamesIdle /\ ChartsInit /\ lazy = LazyIdle /\ PageIdle

NextCharts ==
  \/ \E c \in ChartNames : StartChart(c)
  \/ \E c \in ChartNames : \E i \in 1..Len(charts[c].assets) :
       \E status \in {"ok", "fail"} : AssetSettles(c, i, status)
  \/ \E c \in ChartNames : ChartJoined(c)

SpecCharts == InitCharts /\ [][NextCharts]_vars

InitKeys ==
  LoaderIdle /\ KeysInit /\ charts = ChartsIdle /\ lazy = LazyIdle /\ PageIdle

NextKeys == DeriveKeys

SpecKeys == InitKeys /\ [][NextKeys]_vars

InitRidership ==
  /\ LoaderIdle /\ names = NamesIdle /\ charts = ChartsIdle /\ lazy = LazyIdle
  /\ egg = <<>> /\ scroll = <<>> /\ RidershipInit

NextRidership ==
  \/ \E script \in RiderScripts : GetRidershipData(script)
  \/ \E r \in 1..Len(ridership.promises) : \E ok \in BOOLEAN : RidershipAnswered(r, ok)
  \/ \E r \in 1..Len(ridership.promises) : \E ok \in BOOLEAN : RidershipFallback(r, ok)

SpecRidership == InitRidership /\ [][NextRidership]_vars

InitEgg ==
  /\ LoaderIdle /\ names = NamesIdle /\ charts = ChartsIdle /\ lazy = LazyIdle
  /\ EggInit /\ scroll = <<>> /\ ridership = <<>>

NextEgg == \E link \in MenuLinks, gap \in Gaps : EggClick(link, gap)

SpecEgg == InitEgg /\ [][NextEgg]_vars

InitScroll ==
  /\ LoaderIdle /\ names = NamesIdle /\ charts = ChartsIdle /\ lazy = LazyIdle
  /\ egg = <<>> /\ ScrollInit /\ ridership = <<>>

NextScroll ==
  \/ \E link \in ScrollLinks : ScrollClick(link)
  \/ \E q \in scroll.rafs : Frame(q)
  \/ \E p \in scroll.timers : TimerFires(p)
  \/ \E layout \in Layouts : LayoutShift(layout)

SpecScroll == InitScroll /\ [][NextScroll]_vars

InitLazy ==
  LoaderIdle /\ names = NamesIdle /\ charts = ChartsIdle /\ LazyInit /\ PageIdle

NextLazy ==
  \/ \E target \in Targets, initFn \in InitFns : RegisterLazyInit(target, initFn)
  \/ \E o \in 1..Len(lazy.observers) : \E entries \in EntryLists : Intersect(o, entries)
  \/ \E outcome \in {"ok", "throws", "rejects"} : RunInit(outcome)

SpecLazy == InitLazy /\ [][NextLazy]_vars

\* ------------------------------------------------------------- properties
Reqs == 1..Len(requests)
CallIds == 1..Len(calls)
CallKey(c) == Key(calls[c].path, calls[c].ck)
Resolved(r) == requests[r].pc = "resolved"
Rejected(r) == requests[r].pc = "rejected"
DirectFailed(r) == fetches[r][DirectAt].status = "fail"
PartCount(r) == Len(fetches[r]) - ManifestAt
RoleCount(r, role) ==
  Cardinality({i \in 1..Len(fetches[r]) : fetches[r][i].role = role})

\* The parts list of the manifest the host holds for `path`, <<>> if the host
\* holds no manifest with a non-empty parts array.
HostParts(path) ==
  LET b == Body(ManifestPath(path))
  IN IF b.kind = "json" /\ ~b.json[1].isNull /\ b.json[1].parts.kind = "array"
       THEN b.json[1].parts.items ELSE <<>>

\* C1. Single-flight: all calls with one cache key get one promise; there is
\* one promise per key, it is in the cache from the call that created it on,
\* and its chain issues one direct fetch, at most one manifest fetch and, if
\* any, one fetch per listed part.
C1_SingleFlight ==
  /\ \A c1, c2 \in CallIds :
       CallKey(c1) = CallKey(c2) => calls[c1].promise = calls[c2].promise
  /\ \A r1, r2 \in Reqs : requests[r1].key = requests[r2].key => r1 = r2
  /\ \A r \in Reqs :
       /\ requests[r].key \in DOMAIN cache
       /\ cache[requests[r].key] = r
       /\ RoleCount(r, "direct") = 1
       /\ RoleCount(r, "manifest") <= 1
       /\ RoleCount(r, "part") \in {0, Len(HostParts(requests[r].path))}
       /\ \A i, j \in 1..Len(fetches[r]) :
            fetches[r][i].url = fetches[r][j].url => i = j

\* Two calls with one key, the second made while the promise was pending, and
\* the fallback under way for it.
C1_Witness ==
  \E c1, c2 \in CallIds :
    /\ c1 < c2
    /\ CallKey(c1) = CallKey(c2)
    /\ calls[c2].saw = "pending"
    /\ calls[c1].promise = calls[c2].promise
    /\ requests[calls[c1].promise].pc = "parts"

FallbackFailed(r) ==
  /\ Len(fetches[r]) >= ManifestAt
  /\ \/ fetches[r][ManifestAt].status = "fail"
     \/ /\ fetches[r][ManifestAt].status = "ok"
        /\ HostParts(requests[r].path) = <<>>
     \/ \E i \in 1..PartCount(r) : fetches[r][PartAt(i)].status = "fail"

\* C2. Fallback failure masking: a promise whose direct fetch failed and whose
\* fallback failed is rejected, with the error of the direct fetch.
C2_FailureMasking ==
  \A r \in Reqs :
    /\ Rejected(r) => requests[r].reason = <<Err(r, DirectAt)>>
    /\ Settled(requests[r]) /\ DirectFailed(r) /\ FallbackFailed(r) => Rejected(r)

\* A promise rejected after one of two part fetches failed.
C2_Witness ==
  \E r \in Reqs :
    /\ Rejected(r)
    /\ PartCount(r) >= 2
    /\ \E i \in 1..PartCount(r) : fetches[r][PartAt(i)].status = "fail"

\* rows(part 1) ++ ... ++ rows(part n), as the part fetches returned them
RECURSIVE RowsOfParts(_, _)
RowsOfParts(r, n) ==
  IF n = 0 THEN <<>> ELSE RowsOfParts(r, n - 1) \o fetches[r][PartAt(n)].rows

\* C3. Ordering under skew: a promise resolved by the fallback holds the rows
\* of the parts in the order the manifest lists them.
C3_ManifestOrder ==
  \A r \in Reqs :
    Resolved(r) /\ DirectFailed(r) =>
      /\ PartCount(r) = Len(HostParts(requests[r].path))
      /\ \A i \in 1..PartCount(r) :
           fetches[r][PartAt(i)].url =
             Beside(requests[r].path, HostParts(requests[r].path)[i])
      /\ requests[r].value = RowsOfParts(r, PartCount(r))

\* Resolved by the fallback although a later part was answered first.
C3_Witness ==
  \E r \in Reqs :
    /\ Resolved(r)
    /\ requests[r].skew
    /\ PartCount(r) >= 2
    /\ fetches[r][PartAt(1)].rows # fetches[r][PartAt(2)].rows

\* The host holds the partitioner's output for the cut z of the dataset.
HostHoldsSplit(path, z) ==
  /\ Body(ManifestPath(path)) = JsonBody(PartitionerManifest(path, z))
  /\ \A i \in 1..Len(z) :
       Body(Beside(path, PartName(path, i))) = CsvBody(PartLines(server.dataset, z, i))

\* The N original rows, in order, each through the row transform.
OriginalRows(row) == [i \in 1..MaxRows |-> Transform(row, DataLine(i))]

\* C4. Round trip: with the partitioner's output on the host and the direct
\* fetch failed, the promise resolves with the N original rows in order.
C4_RoundTrip ==
  \A r \in Reqs : \A z \in Cuts :
    Settled(requests[r]) /\ DirectFailed(r) /\ HostHoldsSplit(requests[r].path, z) =>
      /\ Resolved(r)
      /\ requests[r].value = OriginalRows(requests[r].row)

\* Resolved from a split into two parts.
C4_Witness ==
  \E r \in Reqs : \E z \in Cuts :
    /\ Len(z) = 2
    /\ HostHoldsSplit(requests[r].path, z)
    /\ DirectFailed(r)
    /\ Resolved(r)

\* C5. Direct success short-circuits the fallback: a promise whose direct
\* fetch succeeded issues no other fetch and resolves with that fetch's rows.
C5_DirectShortCircuit ==
  \A r \in Reqs :
    /\ fetches[r][DirectAt].status = "ok" =>
         /\ Len(fetches[r]) = 1
         /\ Settled(requests[r]) =>
              Resolved(r) /\ requests[r].value = fetches[r][DirectAt].rows
    /\ Len(fetches[r]) > 1 => DirectFailed(r)

\* Resolved directly while a manifest for the path is on the host.
C5_Witness ==
  \E r \in Reqs :
    /\ Resolved(r)
    /\ fetches[r][DirectAt].status = "ok"
    /\ HostParts(requests[r].path) # <<>>

\* The rows the host holds in the part listed i-th, through `row`.
HostPartRows(path, row, i) ==
  LET lines == Body(Beside(path, HostParts(path)[i])).lines
  IN [j \in 1..(Len(lines) - 1) |-> Transform(row, lines[j + 1])]

RECURSIVE HostRowCount(_, _)
HostRowCount(path, n) ==
  IF n = 0 THEN 0
  ELSE HostRowCount(path, n - 1) + Len(Body(Beside(path, HostParts(path)[n])).lines) - 1

AllPartsOnHost(path) ==
  /\ HostParts(path) # <<>>
  /\ \A i \in 1..Len(HostParts(path)) :
       Body(Beside(path, HostParts(path)[i])).kind = "csv"

\* C6. Fallback success: the direct fetch failed, the host holds a valid
\* manifest and every part it lists: the promise resolves, with as many rows
\* as the parts hold together and each part's rows once.
C6_FallbackSuccess ==
  \A r \in Reqs :
    LET path == requests[r].path
        v == requests[r].value
    IN Settled(requests[r]) /\ DirectFailed(r) /\ AllPartsOnHost(path) =>
         /\ Resolved(r)
         /\ Len(v) = HostRowCount(path, Len(HostParts(path)))
         /\ \A i \in 1..Len(HostParts(path)) :
              LET rows == HostPartRows(path, requests[r].row, i)
              IN \A j \in 1..Len(rows) :
                   Cardinality({k \in 1..Len(v) : v[k] = rows[j]}) = 1

\* Resolved from two parts that hold MaxRows rows together.
C6_Witness ==
  \E r \in Reqs :
    /\ DirectFailed(r)
    /\ Resolved(r)
    /\ Len(HostParts(requests[r].path)) = 2
    /\ Len(requests[r].value) = MaxRows

\* The call a step adds, if it adds one.
IsCallStep == Len(calls') = Len(calls) + 1
NewCall == calls'[Len(calls')]
NewCallKey == Key(NewCall.path, NewCall.ck)

\* C7. Key differentiation: calls on one path, one without and one with a
\* suffix, get different promises; the promise a call creates parses with
\* that call's transform; and a step that settles one promise leaves every
\* other promise and its fetches as they were.
C7_KeysApart ==
  /\ \A c1, c2 \in CallIds :
       /\ calls[c1].path = calls[c2].path
       /\ ~Truthy(calls[c1].ck)
       /\ Truthy(calls[c2].ck)
       => calls[c1].promise # calls[c2].promise
  /\ \A c \in CallIds :
       calls[c].saw = "new" =>
         LET q == requests[calls[c].promise]
         IN /\ q.row = calls[c].row
            /\ \A i \in 1..Len(fetches[calls[c].promise]) :
                 fetches[calls[c].promise][i].row = calls[c].row
            /\ \A j \in 1..Len(q.value) : q.value[j].by = calls[c].row

C7_SettleApart ==
  \A r1, r2 \in Reqs :
    r1 # r2 /\ requests'[r1].pc # requests[r1].pc =>
      requests'[r2] = requests[r2] /\ fetches'[r2] = fetches[r2]

C7_KeyDifferentiation == [](C7_KeysApart) /\ [][C7_SettleApart]_vars

\* transformA without a suffix resolved, transformB with a suffix rejected,
\* on the same path.
C7_Witness ==
  \E c1, c2 \in CallIds :
    /\ calls[c1].path = calls[c2].path
    /\ calls[c1].ck = NoKey /\ calls[c1].row = "A" /\ calls[c1].saw = "new"
    /\ Truthy(calls[c2].ck) /\ calls[c2].row = "B" /\ calls[c2].saw = "new"
    /\ Resolved(calls[c1].promise)
    /\ Rejected(calls[c2].promise)

\* C8. Idempotent re-request after success: a call whose key maps to a
\* resolved promise returns that promise and issues no fetch.
C8_IdempotentAfterSuccess ==
  [][\A key \in DOMAIN cache :
       IsCallStep /\ NewCallKey = key /\ Resolved(cache[key]) =>
         /\ NewCall.promise = cache[key]
         /\ fetches' = fetches
         /\ requests' = requests
         /\ cache' = cache]_vars

\* A call has returned a promise that had already resolved.
C8_Witness ==
  \E c \in CallIds : calls[c].saw = "settled" /\ Resolved(calls[c].promise)

\* C9. Failure poisoning: a call whose key maps to a rejected promise returns
\* that promise and issues no fetch, whatever the host serves by then.
C9_FailurePoisoning ==
  [][\A key \in DOMAIN cache :
       IsCallStep /\ NewCallKey = key /\ Rejected(cache[key]) =>
         /\ NewCall.promise = cache[key]
         /\ fetches' = fetches
         /\ requests' = requests
         /\ cache' = cache]_vars

\* A call has returned a promise that had already rejected, at a time when
\* the host served the path again.
C9_Witness ==
  \E c \in CallIds :
    calls[c].saw = "settled" /\ Rejected(calls[c].promise) /\ calls[c].avail

\* C10. Cache monotonicity: no step removes a key or changes what it maps to.
C10_CacheMonotone ==
  [][\A key \in DOMAIN cache : key \in DOMAIN cache' /\ cache'[key] = cache[key]]_vars

\* Two entries, the older one settled before the newer one was inserted.
C10_Witness ==
  /\ Cardinality(DOMAIN cache) = 2
  /\ \E c1, c2 \in CallIds :
       /\ c1 < c2
       /\ calls[c2].saw = "new"
       /\ Settled(requests[calls[c1].promise])
       /\ cache[CallKey(c1)] = calls[c1].promise
       /\ requests[calls[c2].promise].pc = "direct"

\* The manifest the manifest fetch of promise r returned.
FetchedManifest(r) == fetches[r][ManifestAt].json[1]
PartsIssued(r) == IF Len(fetches[r]) > ManifestAt THEN PartCount(r) ELSE 0
PastManifest(r) ==
  /\ Len(fetches[r]) >= ManifestAt
  /\ fetches[r][ManifestAt].status = "ok"
  /\ requests[r].pc # "manifest"

\* C11. Manifest validation: once the callback has looked at a fetched
\* manifest, a manifest that is null, has no parts field, has a parts field
\* that is not an array, or has an empty parts array has rejected the promise
\* and no part fetch was issued; a manifest with a non-empty parts array,
\* with or without extra fields, has had one fetch issued per listed part.
C11_ManifestValidation ==
  \A r \in Reqs :
    PastManifest(r) =>
      LET m == FetchedManifest(r)
      IN IF m.isNull \/ m.parts.kind # "array" \/ Len(m.parts.items) = 0
           THEN Rejected(r) /\ PartsIssued(r) = 0
           ELSE PartsIssued(r) = Len(m.parts.items)

\* A promise rejected on a manifest whose parts array is empty, no part
\* fetch issued.
C11_Witness ==
  \E r \in Reqs :
    /\ PastManifest(r)
    /\ FetchedManifest(r) = JsonManifest(<<>>, FALSE)
    /\ Rejected(r)
    /\ PartsIssued(r) = 0

SomePartFailed(r) == \E i \in 1..PartsIssued(r) : fetches[r][PartAt(i)].status = "fail"
SomePartPending(r) == \E i \in 1..PartsIssued(r) : fetches[r][PartAt(i)].status = "pending"

\* C12. All-or-nothing part join: a promise resolved by the fallback has
\* every part fetch answered with rows and holds the rows of all of them; a
\* settled promise one of whose part fetches failed is rejected; and as soon
\* as one part fetch has failed the rejection can happen, whether or not
\* other part fetches are still pending.
C12_AllOrNothing ==
  \A r \in Reqs :
    /\ Resolved(r) /\ DirectFailed(r) =>
         /\ PartsIssued(r) >= 1
         /\ \A i \in 1..PartsIssued(r) : fetches[r][PartAt(i)].status = "ok"
         /\ requests[r].value = RowsOfParts(r, PartsIssued(r))
    /\ Settled(requests[r]) /\ SomePartFailed(r) => Rejected(r)
    /\ requests[r].pc = "parts" /\ SomePartFailed(r) => ENABLED PartsJoined(r)

\* A promise rejected by a failed part while another part, which the host
\* would have served with rows, has not been answered yet.
C12_Witness ==
  \E r \in Reqs :
    /\ Rejected(r)
    /\ SomePartFailed(r)
    /\ SomePartPending(r)

\* C13. Concurrent part fetches: the step that issues a part fetch issues the
\* fetch of every part the manifest lists, all of them unanswered, so none
\* waits for another; and every part fetch carries the row transform of the
\* direct attempt.
C13_IssuedTogether ==
  \A r \in 1..Len(fetches) :
    Len(fetches'[r]) > Len(fetches[r]) /\ Len(fetches'[r]) > ManifestAt =>
      /\ Len(fetches[r]) = ManifestAt
      /\ Len(fetches'[r]) = ManifestAt + Len(FetchedManifest(r).parts.items)
      /\ \A i \in 1..Len(FetchedManifest(r).parts.items) :
           fetches'[r][PartAt(i)].status = "pending"

C13_SameTransform ==
  \A r \in Reqs :
    \A i \in 1..PartsIssued(r) :
      /\ fetches[r][PartAt(i)].role = "part"
      /\ fetches[r][PartAt(i)].row = fetches[r][DirectAt].row
      /\ fetches[r][PartAt(i)].status = "ok" =>
           \A j \in 1..Len(fetches[r][PartAt(i)].rows) :
             fetches[r][PartAt(i)].rows[j].by = fetches[r][DirectAt].row

C13_ConcurrentParts == [](C13_SameTransform) /\ [][C13_IssuedTogether]_vars

\* Two part fetches of one promise in flight at once, with transform B.
C13_Witness ==
  \E r \in Reqs :
    /\ requests[r].pc = "parts"
    /\ PartsIssued(r) >= 2
    /\ \A i \in 1..PartsIssued(r) : fetches[r][PartAt(i)].status = "pending"
    /\ fetches[r][DirectAt].row = "B"

Hung(r, i) == i <= Len(fetches[r]) /\ fetches[r][i].status = "hung"
SomePartHung(r) == \E i \in 1..PartsIssued(r) : Hung(r, PartAt(i))

\* C16 as stated: whenever a fetch of a promise is never answered, that
\* promise never settles.
C16_HungNeverSettles ==
  \A r \in Reqs :
    (\E i \in 1..Len(fetches[r]) : Hung(r, i)) => ~Settled(requests[r])

\* C16. Hung fetch: a promise whose direct fetch or manifest fetch is never
\* answered never settles; a promise one of whose part fetches is never
\* answered never resolves, and rejects only if another part fetch failed;
\* and every call with the key of such a promise gets that same promise.
C16_HungFetch ==
  \A r \in Reqs :
    /\ Hung(r, DirectAt) \/ Hung(r, ManifestAt) => ~Settled(requests[r])
    /\ SomePartHung(r) =>
         /\ ~Resolved(r)
         /\ Rejected(r) => SomePartFailed(r)
    /\ (\E i \in 1..Len(fetches[r]) : Hung(r, i)) =>
         \A c \in CallIds : CallKey(c) = requests[r].key => calls[c].promise = r

\* A later call got the pending promise whose manifest fetch is never
\* answered.
C16_Witness ==
  \E c \in CallIds :
    /\ calls[c].saw = "pending"
    /\ Hung(calls[c].promise, ManifestAt)
    /\ ~Settled(requests[calls[c].promise])

\* C17 as stated: the key is in the cache before its direct fetch begins.
C17_EntryBeforeFetch ==
  \A r \in 1..Len(fetches) : fetches[r][DirectAt].cached

\* C17. Entry creation: the call that misses starts the direct fetch first
\* and creates the entry after it, both in its one synchronous step: the
\* direct fetch began with the key not yet in the cache, no state has a
\* fetch whose key is not in the cache, and every later fetch of the chain
\* began with the entry in place.
C17_EntryWithFetch ==
  \A r \in 1..Len(fetches) :
    /\ ~fetches[r][DirectAt].cached
    /\ requests[r].key \in DOMAIN cache
    /\ cache[requests[r].key] = r
    /\ \A i \in 2..Len(fetches[r]) : fetches[r][i].cached

\* The first call has returned; its direct fetch is unanswered and the entry
\* is in the cache.
C17_Witness ==
  /\ Len(calls) = 1
  /\ fetches[1][DirectAt].status = "pending"
  /\ DOMAIN cache = {CallKey(1)}

\* C18. Exclusive cache ownership: a step that changes the cache is a call
\* that missed, and it adds one entry, under the key of that call, leaving
\* every other entry as it was; a hit, a fetch answer, a step of the
\* fallback and a settlement leave the cache as it was.
C18_CacheFrame ==
  [][cache' # cache =>
       /\ IsCallStep
       /\ NewCall.saw = "new"
       /\ NewCallKey \notin DOMAIN cache
       /\ DOMAIN cache' = DOMAIN cache \cup {NewCallKey}
       /\ cache'[NewCallKey] = NewCall.promise
       /\ \A key \in DOMAIN cache : cache'[key] = cache[key]]_vars

\* One entry, after a miss with a suffix, a hit on it, and a fallback that
\* ran to resolution.
C18_Witness ==
  /\ Cardinality(DOMAIN cache) = 1
  /\ Len(calls) = 2
  /\ Truthy(calls[1].ck)
  /\ calls[2].saw # "new"
  /\ Resolved(calls[1].promise)
  /\ DirectFailed(calls[1].promise)

\* C23. Every caller gets its own row shape: the rows of a resolved promise
\* that a call received were produced by the row transform that call passed.
C23_OwnRowShape ==
  \A c \in CallIds :
    Resolved(calls[c].promise) =>
      \A j \in 1..Len(requests[calls[c].promise].value) :
        requests[calls[c].promise].value[j].by = calls[c].row

\* Two calls on one path without a suffix, the first with transform A, the
\* second with transform B: the second received the promise of the first,
\* resolved with rows made by transform A.
C23_Witness ==
  /\ Len(calls) = 2
  /\ calls[1].ck = NoKey /\ calls[2].ck = NoKey
  /\ calls[1].row = "A" /\ calls[2].row = "B"
  /\ calls[2].promise = calls[1].promise
  /\ Resolved(calls[2].promise)
  /\ Len(requests[calls[2].promise].value) = MaxRows
  /\ \A j \in 1..MaxRows : requests[calls[2].promise].value[j].by = "A"

PromisesOf(key) == {r \in Reqs : requests[r].key = key}
FetchesAs(r, role) == {i \in 1..Len(fetches[r]) : fetches[r][i].role = role}

\* C25. Bounded fetch count: for every key that was requested there is one
\* promise; its chain has fetched the path directly once; the manifest at
\* most once, and only after the direct fetch failed; one fetch per entry of
\* the manifest's parts list, at that entry's URL, and only after the
\* manifest was fetched and found to hold a non-empty parts array.
C25_BoundedFetches ==
  \A c \in CallIds :
    /\ Cardinality(PromisesOf(CallKey(c))) = 1
    /\ \A r \in PromisesOf(CallKey(c)) :
         /\ FetchesAs(r, "direct") = {DirectAt}
         /\ fetches[r][DirectAt].url = calls[c].path
         /\ FetchesAs(r, "manifest") \subseteq {ManifestAt}
         /\ FetchesAs(r, "manifest") # {} => fetches[r][DirectAt].status = "fail"
         /\ FetchesAs(r, "part") # {} =>
              /\ fetches[r][ManifestAt].status = "ok"
              /\ FetchedManifest(r).parts.kind = "array"
              /\ FetchesAs(r, "part") =
                   {PartAt(i) : i \in 1..Len(FetchedManifest(r).parts.items)}
              /\ \A i \in 1..Len(FetchedManifest(r).parts.items) :
                   fetches[r][PartAt(i)].url =
                     Beside(requests[r].path, FetchedManifest(r).parts.items[i])

\* Two calls with one key, the second after the promise had settled; the
\* chain of the one promise holds one direct, one manifest and two part
\* fetches, all answered.
C25_Witness ==
  /\ Len(calls) = 2
  /\ CallKey(1) = CallKey(2)
  /\ calls[2].saw = "settled"
  /\ Len(fetches) = 1
  /\ Len(fetches[1]) = PartAt(2)
  /\ \A i \in 1..Len(fetches[1]) : fetches[1][i].status # "pending"

\* Every promise that exists settles in the end.
C26_Settles ==
  \A r \in 1..MaxCalls :
    [](Len(requests) >= r => <>(Len(requests) >= r /\ Settled(requests[r])))

\* A settled promise is never changed again, and it is resolved with rows
\* or rejected with the error of the direct fetch.
C26_Once ==
  \A r \in Reqs :
    Settled(requests[r]) =>
      /\ requests'[r].pc = requests[r].pc
      /\ requests'[r].value = requests[r].value
      /\ requests'[r].reason = requests[r].reason
      /\ \/ Resolved(r) /\ requests[r].reason = <<>>
         \/ Rejected(r) /\ requests[r].reason = <<Err(r, DirectAt)>>
                        /\ requests[r].value = <<>>

\* C26. Eventual settlement: if every fetch that is issued is answered in
\* the end, every promise the loader returned settles in the end, once, and
\* is then resolved with rows or rejected with the direct-load error.
C26_EventualSettlement == C26_Settles /\ [][C26_Once]_vars

\* Two promises, both settled, one rejected after its fallback failed and
\* one resolved, and no fetch left unanswered.
C26_Witness ==
  /\ Len(requests) = 2
  /\ \E r1, r2 \in Reqs :
       /\ Rejected(r1) /\ Len(fetches[r1]) >= ManifestAt
       /\ Resolved(r2)
  /\ \A r \in Reqs : \A i \in 1..Len(fetches[r]) : fetches[r][i].status # "pending"

\* ---- the string computations
LowerCase(ch) ==
  CASE ch = "C" -> "c" [] ch = "S" -> "s" [] ch = "V" -> "v" [] ch = "T" -> "t"
    [] OTHER -> ch
Lowered(s) == [i \in 1..Len(s) |-> LowerCase(s[i])]
LastChars(s, n) == IF Len(s) >= n THEN SubSeq(s, Len(s) - n + 1, Len(s)) ELSE <<>>

\* Where the directory of a path ends: the place of its last "/", 0 if the
\* path has no directory.
DirEnd(path) ==
  CHOOSE k \in 0..Len(path) :
    /\ k = 0 \/ path[k] = "/"
    /\ \A j \in (k + 1)..Len(path) : path[j] # "/"

\* The file name of a path, and where its trailing extension starts (0 if it
\* has none).
FileName(path) == SubSeq(path, DirEnd(path) + 1, Len(path))
ExtStart(path) ==
  IF \E i \in 2..Len(FileName(path)) : FileName(path)[i] = "."
    THEN DirEnd(path) +
         (CHOOSE i \in 2..Len(FileName(path)) :
            /\ FileName(path)[i] = "."
            /\ \A j \in (i + 1)..Len(FileName(path)) : FileName(path)[j] # ".")
    ELSE 0
Extension(path) ==
  IF ExtStart(path) = 0 THEN <<>> ELSE SubSeq(path, ExtStart(path), Len(path))
Base(path) ==
  IF ExtStart(path) = 0 THEN path ELSE SubSeq(path, 1, ExtStart(path) - 1)
TabularExts == {<<".", "c", "s", "v">>, <<".", "t", "s", "v">>}

\* C14 as stated: for a path with a tabular extension, .csv or another, the
\* manifest path is the path without its trailing extension, followed by
\* ".parts.json".
C14_AnyExtension ==
  names.pc = "out" /\ Lowered(Extension(names.path)) \in TabularExts =>
    names.manifest = Base(names.path) \o PartsJsonStr

\* C14. Manifest path derivation: for a path that ends in ".csv", in any
\* letter case, the manifest path is the path without those four characters,
\* followed by ".parts.json"; for any other path it is the whole path, its
\* extension kept, followed by ".parts.json"; either way it is in the
\* directory of the path.
C14_ManifestPath ==
  names.pc = "out" =>
    /\ IF Lowered(LastChars(names.path, 4)) = <<".", "c", "s", "v">>
         THEN names.manifest = SubSeq(names.path, 1, Len(names.path) - 4) \o PartsJsonStr
         ELSE names.manifest = names.path \o PartsJsonStr
    /\ DirEnd(names.manifest) = DirEnd(names.path)
    /\ SubSeq(names.manifest, 1, DirEnd(names.path)) =
         SubSeq(names.path, 1, DirEnd(names.path))

\* The manifest path of d/e/a.b.CSV has been derived: d/e/a.b.parts.json.
C14_Witness ==
  /\ names.pc = "out"
  /\ names.path = <<"d", "/", "e", "/", "a", ".", "b", ".", "C", "S", "V">>
  /\ names.manifest = <<"d", "/", "e", "/", "a", ".", "b">> \o PartsJsonStr

\* C15. Part path resolution: a listed part is fetched at the directory of
\* the dataset path, "/", the part name; at the bare part name when the
\* dataset path has no directory.
C15_PartPath ==
  names.pc = "out" =>
    names.partUrl =
      IF DirEnd(names.path) = 0 THEN names.part
      ELSE SubSeq(names.path, 1, DirEnd(names.path) - 1) \o <<"/">> \o names.part

\* The part q/p.csv of a dataset in d/e/ has been resolved to d/e/q/p.csv.
C15_Witness ==
  /\ names.pc = "out"
  /\ DirEnd(names.path) = 4
  /\ names.part = <<"q", "/", "p", ".", "c", "s", "v">>
  /\ names.partUrl = <<"d", "/", "e", "/", "q", "/", "p", ".", "c", "s", "v">>

\* ---- the charts
LoaderRejected(c) ==
  \E i \in 1..Len(charts[c].assets) :
    charts[c].assets[i].from = "loader" /\ charts[c].assets[i].status = "fail"

\* C19. User-visible failure: a chart whose catch has run after a promise of
\* the loader rejected shows a fallback message in its container.
C19_FallbackShown ==
  \A c \in ChartNames :
    charts[c].pc = "failed" /\ LoaderRejected(c) => "message" \in charts[c].container

\* The bike charts' catch has run after a loader promise rejected: the
\* error is logged and the container is empty; the overview map, in the same
\* situation, shows its message.
C19_Witness ==
  /\ charts["tripdata"].pc = "failed"
  /\ LoaderRejected("tripdata")
  /\ charts["tripdata"].logged
  /\ charts["tripdata"].container = {}
  /\ charts["overview"].pc = "failed"
  /\ LoaderRejected("overview")
  /\ "message" \in charts["overview"].container

\* ---- lazy init
Invocations(element) ==
  Cardinality({i \in 1..Len(lazy.runs) : lazy.runs[i].element = element})
Queued(element) ==
  Cardinality({i \in 1..Len(lazy.jobs) : lazy.jobs[i].element = element})

\* C20. Lazy init is one-shot per element: whatever registrations and
\* intersection callbacks have happened, an element has had at most one init
\* function queued or run for it.
C20_OneShot ==
  \A element \in Elements : Invocations(element) + Queued(element) <= 1

\* Two observers were registered on one element with different init
\* functions, both have seen it intersect, and one init function has run.
C20_Witness ==
  \E o1, o2 \in 1..Len(lazy.observers) :
    /\ o1 < o2
    /\ lazy.observers[o1].element = lazy.observers[o2].element
    /\ lazy.observers[o1].fn # lazy.observers[o2].fn
    /\ ~lazy.observers[o1].observing
    /\ ~lazy.observers[o2].observing
    /\ Invocations(lazy.observers[o1].element) = 1
    /\ lazy.jobs = <<>>

LazyWork == {[element |-> lazy.jobs[i].element, fn |-> lazy.jobs[i].fn] : i \in 1..Len(lazy.jobs)}
              \cup {[element |-> lazy.runs[i].element, fn |-> lazy.runs[i].fn] : i \in 1..Len(lazy.runs)}
AskedFor(element) == {i \in 1..Len(lazy.asked) : lazy.asked[i].target = element}
FirstAsked(element) == CHOOSE i \in AskedFor(element) : \A j \in AskedFor(element) : i <= j

\* With IntersectionObserver: a registration on a matched element only adds
\* an observer, and an init function is queued or run only if an observer of
\* its element, registered with that function, has had an intersecting entry
\* and observes no more.
C21_WithObserver ==
  lazy.hasIO =>
    /\ Len(lazy.observers) =
         Cardinality({i \in 1..Len(lazy.asked) : lazy.asked[i].target # NoElement})
    /\ \A w \in LazyWork :
         \E o \in 1..Len(lazy.observers) :
           /\ lazy.observers[o].element = w.element
           /\ lazy.observers[o].fn = w.fn
           /\ ~lazy.observers[o].observing

\* Without IntersectionObserver: no observer exists, and from its first
\* registration on, an element is marked and the init function of that
\* registration is queued or has run.
C21_WithoutObserver ==
  ~lazy.hasIO =>
    /\ lazy.observers = <<>>
    /\ \A element \in Elements :
         AskedFor(element) # {} =>
           /\ element \in lazy.initialized
           /\ [element |-> element, fn |-> lazy.asked[FirstAsked(element)].fn] \in LazyWork

\* A selector that matches nothing leaves no trace: nothing is marked,
\* observed, queued or run for it.
C21_NoElement ==
  /\ lazy.initialized \subseteq {lazy.asked[i].target : i \in 1..Len(lazy.asked)} \ {NoElement}
  /\ \A w \in LazyWork : w.element # NoElement /\ AskedFor(w.element) # {}
  /\ \A o \in 1..Len(lazy.observers) : lazy.observers[o].element # NoElement

\* With IntersectionObserver, a step that queues an init function is not a
\* registration: it is a callback that ends the observation of the element;
\* an observation that has ended does not start again.
C21_QueuedByCallback ==
  /\ lazy.hasIO /\ Len(lazy'.jobs) > Len(lazy.jobs) =>
       /\ lazy'.asked = lazy.asked
       /\ \E o \in 1..Len(lazy.observers) :
            /\ lazy.observers[o].observing
            /\ ~lazy'.observers[o].observing
            /\ lazy'.jobs[Len(lazy'.jobs)].element = lazy.observers[o].element
            /\ lazy'.jobs[Len(lazy'.jobs)].fn = lazy.observers[o].fn
  /\ \A o \in 1..Len(lazy.observers) :
       ~lazy.observers[o].observing => ~lazy'.observers[o].observing

\* C21. Lazy init is deferred until visibility: with IntersectionObserver a
\* registration invokes nothing, an init function runs only after a callback
\* reported its element intersecting, and that callback ends the observation;
\* without IntersectionObserver the init function is scheduled in the
\* registration itself; for a selector that matches nothing, nothing is ever
\* invoked.
C21_DeferredUntilVisible ==
  /\ [](C21_WithObserver /\ C21_WithoutObserver /\ C21_NoElement)
  /\ [][C21_QueuedByCallback]_vars

\* With IntersectionObserver: three registrations, one on a selector that
\* matches nothing, one whose element is still observed and has nothing
\* queued or run, and one whose element intersected and whose init has run.
C21_Witness ==
  /\ lazy.hasIO
  /\ AskedFor(NoElement) # {}
  /\ \E o1, o2 \in 1..Len(lazy.observers) :
       /\ lazy.observers[o1].observing
       /\ Invocations(lazy.observers[o1].element) + Queued(lazy.observers[o1].element) = 0
       /\ ~lazy.observers[o2].observing
       /\ Invocations(lazy.observers[o2].element) = 1

FailedRuns == {i \in 1..Len(lazy.runs) : lazy.runs[i].outcome # "ok"}

\* C30. Lazy init failure is final: an init function that threw, or whose
\* promise rejected, has been logged; its element stays marked as
\* initialized; and whatever registrations and intersection callbacks come
\* after, that run remains the only init function queued or run for the
\* element.
C30_FailureFinal ==
  /\ lazy.logged = Cardinality(FailedRuns)
  /\ \A i \in FailedRuns :
       /\ lazy.runs[i].element \in lazy.initialized
       /\ Invocations(lazy.runs[i].element) = 1
       /\ Queued(lazy.runs[i].element) = 0

\* An init function threw when one registration had been made; the element
\* was then registered again with another init function, that observer has
\* seen the element intersect, and nothing more was queued or run.
C30_Witness ==
  /\ lazy.hasIO
  /\ Len(lazy.asked) >= 2
  /\ \E i \in FailedRuns :
       /\ lazy.runs[i].at = 1
       /\ lazy.asked[2].target = lazy.runs[i].element
       /\ lazy.asked[2].fn # lazy.runs[i].fn
       /\ Len(lazy.observers) >= 2
       /\ ~lazy.observers[2].observing
       /\ lazy.observers[2].element = lazy.runs[i].element
  /\ lazy.jobs = <<>>
  /\ Len(lazy.runs) = 1

\* ---- the easter egg
\* The place of click i in its run: a run is made of clicks on the last
\* link, each at most 2000 ms after the one before, with no click on another
\* link in between; the click after a 5th starts a new run.
RECURSIVE RunPlace(_)
RunPlace(i) ==
  IF egg.clicks[i].link # LastLink THEN 0
  ELSE IF i = 1 THEN 1
  ELSE IF /\ RunPlace(i - 1) \in 1..4
          /\ egg.clicks[i].time - egg.clicks[i - 1].time <= 2000
         THEN RunPlace(i - 1) + 1
  ELSE 1

\* C22. Easter-egg click counter: triggerTrain has been called on exactly
\* the clicks that are the 5th of a run, and the animation class is set if
\* the train element exists; between handler runs eggClicks is in 0..4 and is
\* the place of the latest click in its run, 0 after a click on another link
\* and after a trigger.
C22_EggCounter ==
  /\ egg.fired = {i \in 1..Len(egg.clicks) : RunPlace(i) = 5}
  /\ egg.eggClicks \in 0..4
  /\ egg.clicks # <<>> => egg.eggClicks = RunPlace(Len(egg.clicks)) % 5
  /\ egg.active <=> (egg.train /\ egg.fired # {})

\* The train ran on the 6th click and on no other: the first click on the
\* last link was followed by a gap longer than the window, and the run of
\* five that followed holds a gap of exactly the window.
C22_Witness ==
  /\ Len(egg.clicks) = 6
  /\ egg.fired = {6}
  /\ egg.active
  /\ egg.clicks[1].link = LastLink
  /\ egg.clicks[2].time - egg.clicks[1].time > CLICK_WINDOW
  /\ \E i \in 3..6 : egg.clicks[i].time - egg.clicks[i - 1].time = CLICK_WINDOW

\* ---- the smooth scroll
Passes == 1..Len(scroll.passes)
PassesOf(click) == {p \in Passes : scroll.passes[p].click = click}
ScrollAtRest == scroll.rafs = {} /\ scroll.timers = {}

\* C27. Latest click wins: no pass is cancelled by the settle-retry of an
\* earlier click, and, the layout not having moved, once no frame and no
\* timer is pending the page is at the target of the last clicked link.
C27_LatestClickWins ==
  /\ \A p \in Passes :
       scroll.passes[p].state = "cancelled" =>
         ~ /\ scroll.passes[scroll.passes[p].by].attempt > 0
           /\ scroll.passes[scroll.passes[p].by].click < scroll.passes[p].click
  /\ scroll.clicks # <<>> /\ ScrollAtRest /\ scroll.shifts = 0 =>
       scroll.y = TargetY(scroll.clicks[Len(scroll.clicks)], scroll.layout)

\* The layout never moved; link a was clicked, then link b; the pass of the
\* second click was cancelled by a settle-retry of the first, and the page
\* has come to rest at the target of a.
C27_Witness ==
  /\ scroll.clicks = <<"a", "b">>
  /\ scroll.shifts = 0
  /\ ScrollAtRest
  /\ scroll.y = TargetY("a", scroll.layout)
  /\ \E p \in PassesOf(2) :
       /\ scroll.passes[p].state = "cancelled"
       /\ scroll.passes[scroll.passes[p].by].click = 1

\* C28. Smooth scroll terminates: the passes of one click are at most three,
\* with attempts 0, 1, 2, each retry started by the timer of the finished
\* pass before it and with the page more than 2 px off target; a timer is
\* pending only for a finished pass of attempt 0 or 1; no pass runs more than
\* Frames frames; and at most one frame request is pending, the one tracked
\* in activeScrollRaf.
C28_ScrollTerminates ==
  /\ \A c \in 1..Len(scroll.clicks) :
       /\ Cardinality(PassesOf(c)) <= 3
       /\ \A p1, p2 \in PassesOf(c) :
            p1 # p2 => scroll.passes[p1].attempt # scroll.passes[p2].attempt
  /\ \A p \in Passes :
       LET a == scroll.passes[p]
       IN /\ a.attempt \in 0..2
          /\ a.frame <= Frames
          /\ a.state = "done" <=> a.frame = Frames
          /\ a.attempt > 0 =>
               /\ a.off > 2
               /\ \E p0 \in PassesOf(a.click) :
                    /\ p0 < p
                    /\ scroll.passes[p0].attempt = a.attempt - 1
                    /\ scroll.passes[p0].state = "done"
                    /\ p0 \notin scroll.timers
  /\ \A p \in scroll.timers :
       scroll.passes[p].state = "done" /\ scroll.passes[p].attempt < 2
  /\ Cardinality(scroll.rafs) <= 1
  /\ \A q \in scroll.rafs :
       q.id = scroll.activeScrollRaf /\ scroll.passes[q.pass].state = "running"
  /\ scroll.rafs = {} => scroll.activeScrollRaf = NoRaf
  /\ scroll.reduced => scroll.passes = <<>>

\* The first click has had three finished passes, the two retries because
\* the layout moved and because a later click moved the page, and nothing is
\* pending after the third.
C28_Witness ==
  /\ Cardinality(PassesOf(1)) = 3
  /\ \A p \in PassesOf(1) : scroll.passes[p].state = "done"
  /\ ScrollAtRest

\* ---- cache keys
\* C24. Cache-key injectivity: two requests that differ in path or in
\* suffix have different cache keys.
C24_KeysInjective ==
  names.pc = "out" /\ names.a # names.b => names.keyA # names.keyB

\* The path p::v without a suffix and the path p with the suffix v have the
\* same key.
C24_Witness ==
  /\ names.pc = "out"
  /\ names.a = [path |-> <<"p", ":", ":", "v">>, ck |-> NoKey]
  /\ names.b = [path |-> <<"p">>, ck |-> Suffix(<<"v">>)]
  /\ names.keyA = names.keyB

\* ---- ridership
\* C29. Shared ridership request: the CSV has been requested at most once;
\* the promise was made by the script whose getRidershipData ran first, in
\* that script's way; every call, from either script, and also after the
\* promise had rejected, returned that promise.
C29_SharedRidership ==
  /\ Len(ridership.promises) <= 1
  /\ ridership.calls # <<>> =>
       /\ Len(ridership.promises) = 1
       /\ ridership.promise = 1
       /\ ridership.promises[1].by = ridership.calls[1].script
       /\ ridership.promises[1].via =
            (IF ridership.calls[1].script = "transport-usage" THEN "loader" ELSE "d3")
       /\ ridership.calls[1].saw = "new"
  /\ \A c \in 1..Len(ridership.calls) :
       /\ ridership.calls[c].promise = 1
       /\ c > 1 => ridership.calls[c].saw # "new"

\* how-people-move asked first and its d3.csv rejected; transport-usage
\* asked afterwards and got the rejected promise.
C29_Witness ==
  /\ Len(ridership.calls) >= 2
  /\ ridership.calls[1].script = "how-people-move"
  /\ \E c \in 2..Len(ridership.calls) :
       /\ ridership.calls[c].script = "transport-usage"
       /\ ridership.calls[c].saw = "rejected"
       /\ ridership.calls[c].promise = 1

====
